---- MODULE Spec2Model ----
(***************************************************************************)
(* The P2P module of rs/p2p/src/p2p.rs: the lifecycle of the P2P runner    *)
(* (run, the timer tasks, drop), the construction of the networking stack  *)
(* (create_networking_stack, setup_artifact_manager, init_artifact_pools), *)
(* fetch_gossip_config and TestArtifact::message_to_advert.                *)
(***************************************************************************)
EXTENDS Naturals, Integers, Sequences, FiniteSets, TLC

(***************************************************************************)
(* Bounds of the model.                                                    *)
(***************************************************************************)
\* the largest number of run() calls made on one runner
MaxRuns == 3

\* the ghost counter ticksSinceKill saturates here
TickCap == 2

Tasks == 1..MaxRuns

VARIABLES
    \* ---- struct P2P and the tasks it spawns
    task_handles,    \* P2P.task_handles: Vec<JoinHandle<()>>, as task ids
    killed,          \* P2P.killed: Arc<AtomicBool>
    event_handler,   \* the P2PEventHandlerControl: "none", "created", "started", "stopped"
    tpc,             \* position of each timer task spawned by run()
    dpc,             \* position of the owner of the runner inside drop()
    joining,         \* the handle drop() is blocked on (0: none)
    \* ---- history variables of the lifecycle
    stop_calls,      \* number of event_handler.stop() calls
    ticksSinceKill,  \* per task: on_timer calls begun after killed was stored (saturating)
    sleepingAtKill,  \* the tasks that had passed the flag check when killed was stored
    \* ---- create_networking_stack and setup_artifact_manager
    cpc,             \* position inside create_networking_stack
    args,            \* the arguments and the collaborators' answers
    transport,       \* the transport object: "none", "supplied", "created"
    transport_client,\* whether the event handler is registered as the P2P client
    maker,           \* the ArtifactManagerMaker: "none", "open", "finished"
    finished,        \* number of artifact_manager_maker.finish() calls
    pools,           \* the artifact pools, in the order they were created
    processors,      \* the processor managers / processors constructed
    registered,      \* the tags given to add_client / add_arc_client, in order
    throttler,       \* the pool returned as IngressThrottler
    gossip,          \* whether the GossipImpl has been built
    result,          \* what create_networking_stack returned
    \* ---- fetch_gossip_config
    registry,        \* the registry client's content
    subnet_id,       \* the subnet asked for
    gossip_config,   \* the configuration fetched
    \* ---- TestArtifact::message_to_advert
    msgs,            \* two TestArtifactMessage values
    adverts          \* their adverts

lifeRest == <<task_handles, killed, tpc, joining, stop_calls, ticksSinceKill,
              sleepingAtKill>>

lifeVars == <<event_handler, dpc, lifeRest>>

stackVars == <<cpc, args, transport, transport_client, maker, finished, pools,
               processors, registered, throttler, gossip, result>>

cfgVars == <<registry, subnet_id, gossip_config>>

advVars == <<msgs, adverts>>

vars == <<lifeVars, stackVars, cfgVars, advVars>>

\* What the runner's lifecycle leaves alone.
otherVars == <<stackVars, cfgVars, advVars>>

(***************************************************************************)
(* The runner's lifecycle.                                                 *)
(***************************************************************************)

\* The tasks run() has spawned so far.
Spawned == {t \in Tasks : tpc[t] # "none"}

\* The tasks whose closure is still executing or still queued.
Live == {t \in Tasks : tpc[t] \in {"spawned", "check", "sleep", "tick"}}

\* The P2P value as create_networking_stack builds it, event handler started.
InitP2P ==
    /\ task_handles = <<>>
    /\ killed = FALSE
    /\ event_handler = "started"
    /\ tpc = [t \in Tasks |-> "none"]
    /\ dpc = "alive"
    /\ joining = 0
    /\ stop_calls = 0
    /\ ticksSinceKill = [t \in Tasks |-> 0]
    /\ sleepingAtKill = {}

\* P2P::run: spawn_blocking of the timer closure, push of its handle.
Run ==
    /\ dpc = "alive"
    /\ Cardinality(Spawned) < MaxRuns
    /\ LET t == Cardinality(Spawned) + 1 IN
         /\ tpc' = [tpc EXCEPT ![t] = "spawned"]
         /\ task_handles' = Append(task_handles, t)
    /\ UNCHANGED <<killed, event_handler, dpc, joining, stop_calls,
                   ticksSinceKill, sleepingAtKill>>
    /\ UNCHANGED otherVars

\* The blocking pool starts the closure: the debug! line, timer_duration.
TimerStart(t) ==
    /\ tpc[t] = "spawned"
    /\ tpc' = [tpc EXCEPT ![t] = "check"]
    /\ UNCHANGED <<task_handles, killed, event_handler, dpc, joining,
                   stop_calls, ticksSinceKill, sleepingAtKill>>
    /\ UNCHANGED otherVars

\* Variant of TimerCheck: the loop condition does not look at the flag.
TimerCheckIgnoresFlag(t) ==
    /\ tpc[t] = "check"
    /\ tpc' = [tpc EXCEPT ![t] = "sleep"]
    /\ UNCHANGED <<task_handles, killed, event_handler, dpc, joining,
                   stop_calls, ticksSinceKill, sleepingAtKill>>
    /\ UNCHANGED otherVars

\* while !killed.load(SeqCst): the loop condition, at the top of an iteration.
TimerCheck(t) ==
    /\ tpc[t] = "check"
    /\ tpc' = [tpc EXCEPT ![t] = IF killed THEN "done" ELSE "sleep"]
    /\ UNCHANGED <<task_handles, killed, event_handler, dpc, joining,
                   stop_calls, ticksSinceKill, sleepingAtKill>>
    /\ UNCHANGED otherVars

\* std::thread::sleep returns and gossip.on_timer(&event_handler) is entered.
TimerTick(t) ==
    /\ tpc[t] = "sleep"
    /\ tpc' = [tpc EXCEPT ![t] = "tick"]
    /\ ticksSinceKill' =
         IF killed
         THEN [ticksSinceKill EXCEPT ![t] = IF @ < TickCap THEN @ + 1 ELSE @]
         ELSE ticksSinceKill
    /\ UNCHANGED <<task_handles, killed, event_handler, dpc, joining,
                   stop_calls, sleepingAtKill>>
    /\ UNCHANGED otherVars

\* Variant of TimerTickDone: the flag is re-read only every other iteration,
\* a tick begun after the store goes straight back to sleep.
TimerTickDoneSkipsCheck(t) ==
    /\ tpc[t] = "tick"
    /\ tpc' = [tpc EXCEPT ![t] = IF ticksSinceKill[t] = 1 THEN "sleep" ELSE "check"]
    /\ UNCHANGED <<task_handles, killed, event_handler, dpc, joining,
                   stop_calls, ticksSinceKill, sleepingAtKill>>
    /\ UNCHANGED otherVars

\* gossip.on_timer returns: back to the loop condition.
TimerTickDone(t) ==
    /\ tpc[t] = "tick"
    /\ tpc' = [tpc EXCEPT ![t] = "check"]
    /\ UNCHANGED <<task_handles, killed, event_handler, dpc, joining,
                   stop_calls, ticksSinceKill, sleepingAtKill>>
    /\ UNCHANGED otherVars

\* Variant of DropSignal: drop forgets to store the flag.
DropSignalNoStore ==
    /\ dpc = "alive"
    /\ dpc' = "loop"
    /\ sleepingAtKill' = {t \in Tasks : tpc[t] = "sleep"}
    /\ UNCHANGED <<task_handles, killed, event_handler, tpc, joining,
                   stop_calls, ticksSinceKill>>
    /\ UNCHANGED otherVars

\* drop: self.killed.store(true, SeqCst).
DropSignal ==
    /\ dpc = "alive"
    /\ killed' = TRUE
    /\ dpc' = "loop"
    /\ sleepingAtKill' = {t \in Tasks : tpc[t] = "sleep"}
    /\ UNCHANGED <<task_handles, event_handler, tpc, joining, stop_calls,
                   ticksSinceKill>>
    /\ UNCHANGED otherVars

\* Variant of DropPop: `if let` for `while let`, only the last handle is joined.
DropPopOnlyLast ==
    /\ dpc = "loop"
    /\ IF task_handles = <<>> \/ Len(task_handles) < Cardinality(Spawned)
       THEN /\ dpc' = "stop"
            /\ UNCHANGED <<task_handles, joining>>
       ELSE /\ joining' = task_handles[Len(task_handles)]
            /\ task_handles' = SubSeq(task_handles, 1, Len(task_handles) - 1)
            /\ dpc' = "await"
    /\ UNCHANGED <<killed, event_handler, tpc, stop_calls, ticksSinceKill,
                   sleepingAtKill>>
    /\ UNCHANGED otherVars

\* drop: while let Some(handle) = self.task_handles.pop().
DropPop ==
    /\ dpc = "loop"
    /\ IF task_handles = <<>>
       THEN /\ dpc' = "stop"
            /\ UNCHANGED <<task_handles, joining>>
       ELSE /\ joining' = task_handles[Len(task_handles)]
            /\ task_handles' = SubSeq(task_handles, 1, Len(task_handles) - 1)
            /\ dpc' = "await"
    /\ UNCHANGED <<killed, event_handler, tpc, stop_calls, ticksSinceKill,
                   sleepingAtKill>>
    /\ UNCHANGED otherVars

\* Variant of DropJoin: the handle is dropped without being awaited.
DropJoinDetached ==
    /\ dpc = "await"
    /\ joining' = 0
    /\ dpc' = "loop"
    /\ UNCHANGED <<task_handles, killed, event_handler, tpc, stop_calls,
                   ticksSinceKill, sleepingAtKill>>
    /\ UNCHANGED otherVars

\* drop: async_safe_block_on_await(handle).ok() returns once the task is over.
DropJoin ==
    /\ dpc = "await"
    /\ tpc[joining] = "done"
    /\ joining' = 0
    /\ dpc' = "loop"
    /\ UNCHANGED <<task_handles, killed, event_handler, tpc, stop_calls,
                   ticksSinceKill, sleepingAtKill>>
    /\ UNCHANGED otherVars

\* drop: self.event_handler.stop(), then drop returns.
DropStop ==
    /\ dpc = "stop"
    /\ event_handler' = "stopped"
    /\ stop_calls' = stop_calls + 1
    /\ dpc' = "returned"
    /\ UNCHANGED <<task_handles, killed, tpc, joining, ticksSinceKill,
                   sleepingAtKill>>
    /\ UNCHANGED otherVars

(***************************************************************************)
(* fetch_gossip_config.                                                    *)
(***************************************************************************)

\* the registry versions are 1..MaxVersion
MaxVersion == 2

Versions == 1..MaxVersion

Subnets == {"subnetA", "subnetB"}

\* p2p::build_default_gossip_config(): the built-in configuration.
build_default_gossip_config == "default"

\* The configurations a registry record can hold; one of them has the values
\* of the built-in one.
GossipConfigs == {"cfgA", build_default_gossip_config}

\* What RegistryClient::get_gossip_config answers:
\* Result<Option<Option<GossipConfig>>>.
LookupOutcomes ==
    {<<"Err">>, <<"Ok", "None">>, <<"Ok", "Some", "None">>}
        \cup {<<"Ok", "Some", "Some", c>> : c \in GossipConfigs}

Registries ==
    [latest : Versions, records : [Subnets \X Versions -> LookupOutcomes]]

\* registry_client.get_latest_version()
get_latest_version(reg) == reg.latest

\* registry_client.get_gossip_config(subnet_id, version)
get_gossip_config(reg, subnet, version) == reg.records[<<subnet, version>>]

\* Variant of fetch_gossip_config: the lookup is made at the first version
\* instead of the latest one.
fetch_gossip_config_first_version(reg, subnet) ==
    LET r == get_gossip_config(reg, subnet, 1) IN
    IF Len(r) = 4 /\ r[1] = "Ok" /\ r[2] = "Some" /\ r[3] = "Some"
    THEN r[4]
    ELSE build_default_gossip_config

\* fetch_gossip_config: if let Ok(Some(Some(gossip_config))) = ... else default.
fetch_gossip_config(reg, subnet) ==
    LET r == get_gossip_config(reg, subnet, get_latest_version(reg)) IN
    IF Len(r) = 4 /\ r[1] = "Ok" /\ r[2] = "Some" /\ r[3] = "Some"
    THEN r[4]
    ELSE build_default_gossip_config

\* Nothing fetched yet.
InitConfigIdle ==
    /\ registry = [latest |-> 1,
                   records |-> [k \in Subnets \X Versions |-> <<"Ok", "None">>]]
    /\ subnet_id = "subnetA"
    /\ gossip_config = "unset"

InitConfig ==
    /\ registry \in Registries
    /\ subnet_id \in Subnets
    /\ gossip_config = "unset"

\* A call of fetch_gossip_config(registry_client, subnet_id).
FetchGossipConfig ==
    /\ gossip_config = "unset"
    /\ gossip_config' = fetch_gossip_config(registry, subnet_id)
    /\ UNCHANGED <<registry, subnet_id>>
    /\ UNCHANGED <<lifeVars, stackVars, advVars>>

(***************************************************************************)
(* TestArtifact::message_to_advert.                                        *)
(***************************************************************************)

\* the longest FileTreeSyncId, in characters
MaxIdLen == 2

\* The characters of an id, as code points: 'a' and U+00E9.
IdChars == {97, 233}

RECURSIVE SeqsUpTo(_, _)
SeqsUpTo(S, n) ==
    IF n = 0 THEN {<<>>}
    ELSE LET shorter == SeqsUpTo(S, n - 1) IN
         shorter \cup {Append(q, c) : q \in {x \in shorter : Len(x) = n - 1}, c \in S}

\* FileTreeSyncId = String
TestArtifactIds == SeqsUpTo(IdChars, MaxIdLen)

\* The rest of a FileTreeSyncArtifact: what the artifact carries besides its id.
TestArtifactContents == {"path1", "path2"}

\* TestArtifactMessage = FileTreeSyncArtifact
TestArtifactMessages == [id : TestArtifactIds, content : TestArtifactContents]

\* The UTF-8 encoding of one code point below U+0800.
Utf8(c) ==
    IF c < 128 THEN <<c>> ELSE <<192 + (c \div 64), 128 + (c % 64)>>

\* String::into_bytes: the UTF-8 bytes of the string.
RECURSIVE into_bytes(_)
into_bytes(str) ==
    IF str = <<>> THEN <<>> ELSE Utf8(Head(str)) \o into_bytes(Tail(str))

\* String::to_string: the same string.
to_string(str) == str

\* message_to_advert: attribute and integrity_hash from msg.id, size 0.
message_to_advert(msg) ==
    [attribute |-> to_string(msg.id),
     size |-> 0,
     id |-> msg.id,
     integrity_hash |-> into_bytes(msg.id)]

\* No message converted.
InitAdvertIdle ==
    /\ msgs = <<>>
    /\ adverts = <<>>

InitAdvert ==
    /\ msgs \in TestArtifactMessages \X TestArtifactMessages
    /\ adverts = <<>>

\* message_to_advert applied to both messages.
MessageToAdvert ==
    /\ adverts = <<>>
    /\ adverts' = <<message_to_advert(msgs[1]), message_to_advert(msgs[2])>>
    /\ UNCHANGED msgs
    /\ UNCHANGED <<lifeVars, stackVars, cfgVars>>

(***************************************************************************)
(* create_networking_stack and setup_artifact_manager.                     *)
(***************************************************************************)

\* P2PStateSyncClient
StateSyncClients == {"Client", "TestClient", "TestChunkingPool"}

\* The errors transport.register_client can answer with.
TransportErrors == {"TransportErrorA", "TransportErrorB"}

StackArgs ==
    [transport : {"none", "supplied"},
     register_result : {"Ok"} \cup TransportErrors,
     state_sync_client : StateSyncClients,
     pool_compatible : BOOLEAN]

\* The registries used when the stack is built: one answer for every lookup.
UniformRegistries ==
    {[latest |-> MaxVersion, records |-> [k \in Subnets \X Versions |-> o]] :
        o \in LookupOutcomes}

\* format!("transport registration failed: {:?}", e)
RegistrationFailed(e) == <<"transport registration failed: ", e>>

\* The state before the P2P value exists.
InitStackLife ==
    /\ event_handler = "none"
    /\ dpc = "unbuilt"
    /\ task_handles = <<>>
    /\ killed = FALSE
    /\ tpc = [t \in Tasks |-> "none"]
    /\ joining = 0
    /\ stop_calls = 0
    /\ ticksSinceKill = [t \in Tasks |-> 0]
    /\ sleepingAtKill = {}

InitStackVars ==
    /\ transport = "none"
    /\ transport_client = FALSE
    /\ maker = "none"
    /\ finished = 0
    /\ pools = <<>>
    /\ processors = {}
    /\ registered = <<>>
    /\ throttler = "none"
    /\ gossip = FALSE
    /\ result = [tag |-> "none"]

\* The stack's variables where the construction is not under study.
InitStackIdle ==
    /\ cpc = "idle"
    /\ args = [transport |-> "supplied", register_result |-> "Ok",
               state_sync_client |-> "Client", pool_compatible |-> TRUE]
    /\ InitStackVars

InitStack ==
    /\ cpc = "transport"
    /\ args \in StackArgs
    /\ InitStackVars
    /\ InitStackLife
    /\ registry \in UniformRegistries
    /\ subnet_id \in Subnets
    /\ gossip_config = "unset"
    /\ InitAdvertIdle

\* transport.unwrap_or_else(create_transport), p2p_flow_tags.
CreateTransport ==
    /\ cpc = "transport"
    /\ transport' = IF args.transport = "supplied" THEN "supplied" ELSE "created"
    /\ cpc' = "handler"
    /\ UNCHANGED <<args, transport_client, maker, finished, pools, processors,
                   registered, throttler, gossip, result>>
    /\ UNCHANGED <<lifeVars, cfgVars, advVars>>

\* P2PEventHandlerImpl::new(..., fetch_gossip_config(registry_client, subnet_id)).
CreateEventHandler ==
    /\ cpc = "handler"
    /\ gossip_config' = fetch_gossip_config(registry, subnet_id)
    /\ event_handler' = "created"
    /\ cpc' = "register"
    /\ UNCHANGED <<registry, subnet_id, dpc, lifeRest, advVars>>
    /\ UNCHANGED <<args, transport, transport_client, maker, finished, pools,
                   processors, registered, throttler, gossip, result>>

\* Variant of RegisterClient: the error of register_client is dropped.
RegisterClientIgnoresError ==
    /\ cpc = "register"
    /\ transport_client' = (args.register_result = "Ok")
    /\ cpc' = "setup"
    /\ UNCHANGED <<args, transport, maker, finished, pools, processors,
                   registered, throttler, gossip, result>>
    /\ UNCHANGED <<lifeVars, cfgVars, advVars>>

\* transport.register_client(P2P, event_handler).map_err(format!(...))?
RegisterClient ==
    /\ cpc = "register"
    /\ IF args.register_result = "Ok"
       THEN /\ transport_client' = TRUE
            /\ cpc' = "setup"
            /\ UNCHANGED result
       ELSE /\ result' = [tag |-> "Err",
                          msg |-> RegistrationFailed(args.register_result)]
            /\ cpc' = "done"
            /\ UNCHANGED transport_client
    /\ UNCHANGED <<args, transport, maker, finished, pools, processors,
                   registered, throttler, gossip>>
    /\ UNCHANGED <<lifeVars, cfgVars, advVars>>

\* setup_artifact_manager: the time source and ArtifactManagerMaker::new.
SetupBegin ==
    /\ cpc = "setup"
    /\ maker' = "open"
    /\ cpc' = "compat"
    /\ UNCHANGED <<args, transport, transport_client, finished, pools,
                   processors, registered, throttler, gossip, result>>
    /\ UNCHANGED <<lifeVars, cfgVars, advVars>>

\* Variant of EnsureCompatibility: an incompatible persistent pool is only
\* reported and the construction goes on.
EnsureCompatibilityOnlyWarns ==
    /\ cpc = "compat"
    /\ cpc' = "pools"
    /\ UNCHANGED <<args, transport, transport_client, maker, finished, pools,
                   processors, registered, throttler, gossip, result>>
    /\ UNCHANGED <<lifeVars, cfgVars, advVars>>

\* ensure_persistent_pool_replica_version_compatibility(db_path): panics on an
\* incompatible persistent pool.
EnsureCompatibility ==
    /\ cpc = "compat"
    /\ IF args.pool_compatible
       THEN /\ cpc' = "pools"
            /\ UNCHANGED result
       ELSE /\ result' = [tag |-> "panic"]
            /\ cpc' = "done"
    /\ UNCHANGED <<args, transport, transport_client, maker, finished, pools,
                   processors, registered, throttler, gossip>>
    /\ UNCHANGED <<lifeVars, cfgVars, advVars>>

\* init_artifact_pools: the four pools, in the order of the tuple; then the
\* consensus pool's cache.
init_artifact_pools ==
    <<"ingress_pool", "consensus_pool", "certification_pool", "dkg_pool">>

InitArtifactPools ==
    /\ cpc = "pools"
    /\ pools' = pools \o init_artifact_pools
    /\ cpc' = "statesync"
    /\ UNCHANGED <<args, transport, transport_client, maker, finished,
                   processors, registered, throttler, gossip, result>>
    /\ UNCHANGED <<lifeVars, cfgVars, advVars>>

\* Variant of SetupStateSync: the TestChunkingPool branch does not return.
SetupStateSyncFallsThrough ==
    /\ cpc = "statesync"
    /\ IF args.state_sync_client = "TestChunkingPool"
       THEN /\ processors' = processors \cup {"test_manager"}
            /\ registered' = Append(registered, "FileTreeSyncArtifact")
       ELSE IF args.state_sync_client = "Client"
       THEN /\ processors' = processors \cup {"state_sync_manager"}
            /\ registered' = Append(registered, "StateSyncArtifact")
       ELSE UNCHANGED <<processors, registered>>
    /\ cpc' = "ingress_manager"
    /\ UNCHANGED <<args, transport, transport_client, pools, gossip, result,
                   maker, finished, throttler>>
    /\ UNCHANGED <<lifeVars, cfgVars, advVars>>

\* The two `if let` on state_sync_client: TestChunkingPool adds the supplied
\* client, finishes the maker and returns; Client adds the state manager.
SetupStateSync ==
    /\ cpc = "statesync"
    /\ IF args.state_sync_client = "TestChunkingPool"
       THEN /\ processors' = processors \cup {"test_manager"}
            /\ registered' = Append(registered, "FileTreeSyncArtifact")
            /\ maker' = "finished"
            /\ finished' = finished + 1
            /\ throttler' = "ingress_pool"
            /\ cpc' = "gossip"
       ELSE IF args.state_sync_client = "Client"
       THEN /\ processors' = processors \cup {"state_sync_manager"}
            /\ registered' = Append(registered, "StateSyncArtifact")
            /\ cpc' = "ingress_manager"
            /\ UNCHANGED <<maker, finished, throttler>>
       ELSE /\ cpc' = "ingress_manager"
            /\ UNCHANGED <<processors, registered, maker, finished, throttler>>
    /\ UNCHANGED <<args, transport, transport_client, pools, gossip, result>>
    /\ UNCHANGED <<lifeVars, cfgVars, advVars>>

\* ReplicaConfig, Membership::new, IngressManager::new.
SetupIngressManager ==
    /\ cpc = "ingress_manager"
    /\ cpc' = "consensus"
    /\ UNCHANGED <<args, transport, transport_client, maker, finished, pools,
                   processors, registered, throttler, gossip, result>>
    /\ UNCHANGED <<lifeVars, cfgVars, advVars>>

\* One `Processor::build` block followed by artifact_manager_maker.add_client.
AddClient(at, processor, tag, next) ==
    /\ cpc = at
    /\ processors' = processors \cup {processor}
    /\ registered' = Append(registered, tag)
    /\ cpc' = next
    /\ UNCHANGED <<args, transport, transport_client, maker, finished, pools,
                   throttler, gossip, result>>
    /\ UNCHANGED <<lifeVars, cfgVars, advVars>>

SetupConsensus ==
    AddClient("consensus", "consensus_processor", "ConsensusArtifact", "ingress")

SetupIngress ==
    AddClient("ingress", "ingress_processor", "IngressArtifact", "certification")

SetupCertification ==
    AddClient("certification", "certification_processor",
              "CertificationArtifact", "dkg")

SetupDkg ==
    AddClient("dkg", "dkg_processor", "DkgArtifact", "finish")

\* Ok((artifact_manager_maker.finish(), consensus_cache, ingress_pool)).
SetupFinish ==
    /\ cpc = "finish"
    /\ maker' = "finished"
    /\ finished' = finished + 1
    /\ throttler' = "ingress_pool"
    /\ cpc' = "gossip"
    /\ UNCHANGED <<args, transport, transport_client, pools, processors,
                   registered, gossip, result>>
    /\ UNCHANGED <<lifeVars, cfgVars, advVars>>

\* GossipImpl::new(...)
BuildGossip ==
    /\ cpc = "gossip"
    /\ gossip' = TRUE
    /\ cpc' = "start"
    /\ UNCHANGED <<args, transport, transport_client, maker, finished, pools,
                   processors, registered, throttler, result>>
    /\ UNCHANGED <<lifeVars, cfgVars, advVars>>

\* event_handler.start(gossip.clone())
StartEventHandler ==
    /\ cpc = "start"
    /\ event_handler' = "started"
    /\ cpc' = "p2p"
    /\ UNCHANGED <<dpc, lifeRest, cfgVars, advVars>>
    /\ UNCHANGED <<args, transport, transport_client, maker, finished, pools,
                   processors, registered, throttler, gossip, result>>

\* let p2p = P2P { task_handles: Vec::new(), killed: false, ... }
BuildP2P ==
    /\ cpc = "p2p"
    /\ task_handles' = <<>>
    /\ killed' = FALSE
    /\ dpc' = "alive"
    /\ cpc' = "return"
    /\ UNCHANGED <<event_handler, tpc, joining, stop_calls, ticksSinceKill,
                   sleepingAtKill, cfgVars, advVars>>
    /\ UNCHANGED <<args, transport, transport_client, maker, finished, pools,
                   processors, registered, throttler, gossip, result>>

\* IngressEventHandlerImpl::new(ingress_throttle, gossip, node_id);
\* Ok((ingress_handler, Box::new(p2p), consensus_pool_cache)).
ReturnStack ==
    /\ cpc = "return"
    /\ result' = [tag |-> "Ok",
                  ingress_handler |-> throttler,
                  runner |-> "p2p",
                  consensus_pool_cache |-> "consensus_pool"]
    /\ cpc' = "done"
    /\ UNCHANGED <<args, transport, transport_client, maker, finished, pools,
                   processors, registered, throttler, gossip>>
    /\ UNCHANGED <<lifeVars, cfgVars, advVars>>

SetupArtifactManager ==
    \/ SetupBegin
    \/ EnsureCompatibility
    \/ InitArtifactPools
    \/ SetupStateSync
    \/ SetupIngressManager
    \/ SetupConsensus
    \/ SetupIngress
    \/ SetupCertification
    \/ SetupDkg
    \/ SetupFinish

NextStack ==
    \/ CreateTransport
    \/ CreateEventHandler
    \/ RegisterClient
    \/ SetupArtifactManager
    \/ BuildGossip
    \/ StartEventHandler
    \/ BuildP2P
    \/ ReturnStack

SpecStack == InitStack /\ [][NextStack]_vars

NextConfig == FetchGossipConfig

InitFetch ==
    /\ InitConfig
    /\ InitStackIdle
    /\ InitStackLife
    /\ InitAdvertIdle

SpecConfig == InitFetch /\ [][NextConfig]_vars

NextAdvert == MessageToAdvert

InitMessages ==
    /\ InitAdvert
    /\ InitStackIdle
    /\ InitStackLife
    /\ InitConfigIdle

SpecAdvert == InitMessages /\ [][NextAdvert]_vars

TimerStep(t) ==
    \/ TimerStart(t)
    \/ TimerCheck(t)
    \/ TimerTick(t)
    \/ TimerTickDone(t)

DropStep ==
    \/ DropPop
    \/ DropJoin
    \/ DropStop

Init ==
    /\ InitP2P
    /\ InitStackIdle
    /\ InitConfigIdle
    /\ InitAdvertIdle

Next ==
    \/ Run
    \/ DropSignal
    \/ DropStep
    \/ \E t \in Tasks : TimerStep(t)

Spec == Init /\ [][Next]_vars

\* The blocking pool runs every queued closure, sleep and on_timer return, and
\* the thread inside drop keeps running; the owner is not obliged to call run
\* or to drop the runner.
Fairness ==
    /\ \A t \in Tasks : WF_vars(TimerStep(t))
    /\ WF_vars(DropStep)

FairSpec == Init /\ [][Next]_vars /\ Fairness

(***************************************************************************)
(* Properties of the construction.                                         *)
(***************************************************************************)

Range(q) == {q[i] : i \in 1..Len(q)}

NoDuplicates(q) == \A i, j \in 1..Len(q) : q[i] = q[j] => i = j

\* The positions of create_networking_stack after setup_artifact_manager
\* has returned.
AfterSetup == {"gossip", "start", "p2p", "return"}

\* C6: if transport.register_client fails, create_networking_stack returns
\* Err with the message "transport registration failed: <error>", and no
\* artifact manager maker, pool, processor, registration, Gossip object,
\* event handler start or runner ever comes into existence.
RegistrationFailureAborts ==
    args.register_result # "Ok" =>
        /\ maker = "none" /\ finished = 0
        /\ pools = <<>>
        /\ processors = {}
        /\ registered = <<>>
        /\ ~gossip
        /\ event_handler # "started"
        /\ dpc = "unbuilt"
        /\ ~transport_client
        /\ result.tag \in {"none", "Err"}
        /\ (cpc = "done" =>
              result = [tag |-> "Err",
                        msg |-> <<"transport registration failed: ",
                                  args.register_result>>])

RegistrationFailureWitness ==
    /\ args.register_result = "TransportErrorB"
    /\ args.transport = "none"
    /\ cpc = "done"
    /\ result.tag = "Err"
    /\ event_handler = "created"

\* C7: fetch_gossip_config always yields a configuration: the one of the
\* registry when the lookup for the subnet at the latest version is
\* Ok(Some(Some(config))), the built-in default in every other outcome.
FetchGossipConfigTotal ==
    gossip_config # "unset" =>
        LET r == registry.records[<<subnet_id, registry.latest>>] IN
        /\ gossip_config \in GossipConfigs
        /\ \A c \in GossipConfigs :
             r = <<"Ok", "Some", "Some", c>> => gossip_config = c
        /\ (r \in {<<"Err">>, <<"Ok", "None">>, <<"Ok", "Some", "None">>}
              => gossip_config = build_default_gossip_config)

FetchGossipConfigWitness ==
    /\ gossip_config = "cfgA"
    /\ registry.latest = MaxVersion
    /\ registry.records[<<subnet_id, 1>>] = <<"Err">>
    /\ \A v \in Versions :
         registry.records[<<CHOOSE o \in Subnets : o # subnet_id, v>>]
             = <<"Ok", "Some", "None">>

\* C8 as stated: two messages with the same id and differing content have
\* adverts with differing integrity_hash, and identical messages have
\* identical adverts.
AdvertInjective ==
    adverts # <<>> =>
        /\ (msgs[1].id = msgs[2].id /\ msgs[1].content # msgs[2].content
              => adverts[1].integrity_hash # adverts[2].integrity_hash)
        /\ (msgs[1] = msgs[2] => adverts[1] = adverts[2])

\* The tags setup_artifact_manager is to register for a state sync client.
ExpectedTags(client) ==
    CASE client = "Client" ->
           {"StateSyncArtifact", "ConsensusArtifact", "IngressArtifact",
            "CertificationArtifact", "DkgArtifact"}
      [] client = "TestClient" ->
           {"ConsensusArtifact", "IngressArtifact", "CertificationArtifact",
            "DkgArtifact"}
      [] client = "TestChunkingPool" -> {"FileTreeSyncArtifact"}

\* C9: no tag is ever registered twice and the maker is finished at most once;
\* when setup_artifact_manager has returned, the registered tags are exactly
\* those of the state sync client variant, the maker has been finished once,
\* the throttler is the ingress pool, and with TestChunkingPool none of the
\* consensus, ingress, certification and DKG processors was built.
RegistersEachKindOnce ==
    /\ NoDuplicates(registered)
    /\ finished <= 1
    /\ (cpc \in AfterSetup \/ result.tag = "Ok" =>
          /\ Range(registered) = ExpectedTags(args.state_sync_client)
          /\ Len(registered) = Cardinality(ExpectedTags(args.state_sync_client))
          /\ finished = 1 /\ maker = "finished"
          /\ throttler = "ingress_pool"
          /\ (args.state_sync_client = "TestChunkingPool"
                => processors = {"test_manager"}))

RegistersEachKindOnceWitness ==
    /\ result.tag = "Ok"
    /\ args.state_sync_client = "TestChunkingPool"
    /\ registered = <<"FileTreeSyncArtifact">>
    /\ result.ingress_handler = "ingress_pool"

\* The positions of the construction up to and including the compatibility
\* check of the persistent pool.
UpToCompatibilityCheck == {"transport", "handler", "register", "setup", "compat"}

\* C11: the persistent-pool compatibility check comes before every pool,
\* processor and registration: whenever one of them exists the check has been
\* passed; and when the check fails, no pool, processor, registration,
\* finished artifact manager, Gossip object or runner ever exists and the
\* construction ends there without a result.
CompatibilityCheckedFirst ==
    /\ (pools # <<>> \/ processors # {} \/ registered # <<>> \/ finished > 0
          => args.pool_compatible /\ cpc \notin UpToCompatibilityCheck)
    /\ (~args.pool_compatible =>
          /\ pools = <<>>
          /\ processors = {}
          /\ registered = <<>>
          /\ finished = 0 /\ maker # "finished"
          /\ throttler = "none"
          /\ ~gossip
          /\ event_handler # "started"
          /\ dpc = "unbuilt"
          /\ result.tag # "Ok"
          /\ (cpc = "done" /\ args.register_result = "Ok"
                => result = [tag |-> "panic"]))

CompatibilityCheckedFirstWitness ==
    /\ ~args.pool_compatible
    /\ args.register_result = "Ok"
    /\ cpc = "done"
    /\ result.tag = "panic"
    /\ maker = "open"
    /\ transport_client

(***************************************************************************)
(* Properties of the lifecycle.                                            *)
(***************************************************************************)

\* C1: when drop has returned, every timer task spawned by run() has exited:
\* none is queued, sleeping or inside gossip.on_timer, and no step of a timer
\* task is possible any more.
JoinOnTeardown ==
    dpc = "returned" =>
        /\ Live = {}
        /\ task_handles = <<>>
        /\ ~ENABLED (\E t \in Tasks : TimerStep(t))

JoinOnTeardownWitness ==
    /\ dpc = "returned"
    /\ Cardinality(Spawned) >= 2
    /\ \E t \in Tasks : ticksSinceKill[t] = 1

\* C2 as stated: once killed is stored, no timer task begins another
\* gossip.on_timer call.
NoTickAfterSignal ==
    \A t \in Tasks : ticksSinceKill[t] = 0

\* C2 amended: once killed is stored, the only on_timer calls that still begin
\* are those of tasks that had passed the flag check (were in their sleep)
\* when it was stored; a task that reads the flag afterwards begins none.
TickAfterSignalOnlyIfPastCheck ==
    \A t \in Tasks : ticksSinceKill[t] > 0 => t \in sleepingAtKill

TickAfterSignalWitness ==
    /\ killed
    /\ \E t \in Tasks : ticksSinceKill[t] = 1 /\ tpc[t] = "done"
    /\ \E t \in Spawned : t \notin sleepingAtKill /\ tpc[t] = "done"

\* C3: event_handler.stop() is called once per drop, also when run() was never
\* called, and from the moment it is called no timer task is queued, sleeping
\* or inside gossip.on_timer.
StopOnceAfterJoin ==
    /\ stop_calls <= 1
    /\ (dpc = "returned" => stop_calls = 1)
    /\ (stop_calls >= 1 => Live = {} /\ task_handles = <<>>)
    /\ (event_handler = "stopped" <=> stop_calls >= 1)

StopOnceAfterJoinWitness ==
    /\ stop_calls = 1
    /\ event_handler = "stopped"
    /\ sleepingAtKill # {}
    /\ Cardinality(Spawned) = MaxRuns

\* C4: once drop has begun, with fair scheduling of the timer tasks and every
\* on_timer call returning, every task exits, every handle is joined and drop
\* returns.
ShutdownTerminates ==
    (dpc # "alive") ~> (dpc = "returned" /\ Live = {} /\ task_handles = <<>>)

ShutdownTerminatesWitness ==
    /\ dpc = "returned"
    /\ Cardinality(Spawned) = MaxRuns
    /\ sleepingAtKill = {}

\* C5 as stated: at most one timer loop exists at any time and no two
\* gossip.on_timer calls of one runner overlap.
OneTimerLoop ==
    /\ Cardinality(Live) <= 1
    /\ Cardinality({t \in Tasks : tpc[t] = "tick"}) <= 1

\* C10: a gossip.on_timer call in progress is followed only by its own return
\* to the loop condition; a task exits only at the loop condition and only
\* with the flag set; a task leaves the loop condition for its sleep only with
\* the flag clear; and after the store each task begins at most one more
\* on_timer call.
CooperativeCancellation ==
    [][\A t \in Tasks :
         /\ (tpc[t] = "tick" => tpc'[t] \in {"tick", "check"})
         /\ (tpc[t] # "done" /\ tpc'[t] = "done" => tpc[t] = "check" /\ killed)
         /\ (tpc[t] # "sleep" /\ tpc'[t] = "sleep" => tpc[t] = "check" /\ ~killed)
         /\ ticksSinceKill'[t] <= 1]_vars

CooperativeCancellationWitness ==
    /\ killed
    /\ \E t \in Tasks : ticksSinceKill[t] = 1 /\ tpc[t] = "tick"
    /\ \E t \in Tasks : ticksSinceKill[t] = 0 /\ tpc[t] = "tick"

====
